---- MODULE Spec2Model ----
(***************************************************************************)
(* Voice phase controller of the Jarvis voice interface                    *)
(* (src/src/components/jarvis/useJarvisVoiceLoop.ts, second definition of  *)
(* useJarvisVoiceLoop, lines 311-612) together with the parts of its host  *)
(* component JarvisCore (src/unnamed/part_002) that decide which handlers  *)
(* the user can reach, the access gate PinGate (src/unnamed/part_004) with *)
(* its confirmation animation SecurityAnimation (src/unnamed/part_003),    *)
(* and the page Index (src/unnamed/part_000) that wires the gate to the    *)
(* controller's start signal.                                              *)
(*                                                                         *)
(* One action is one JavaScript task: the handler body up to its next      *)
(* await, followed by the React render it causes and the effects of that   *)
(* render.  Every await (fetch, getUserMedia, the utterance promise, the   *)
(* placeholder timer) ends an action and its continuation is another one.  *)
(*                                                                         *)
(* Texts are sequences of one-character strings so that String.trim() is   *)
(* computed, not assumed.                                                  *)
(*                                                                         *)
(* micActive (a display flag written by rec.onstart / stopListeningHard    *)
(* and read by no handler) is not part of the state.                       *)
(***************************************************************************)
EXTENDS Integers, Sequences, FiniteSets, TLC

\* ---------------------------------------------------------------- bounds
MaxMsgs == 4
MaxInflight == 2
MaxPerm == 1
MaxRearm == 1
MaxOrphans == 1
MaxCancelled == 1
MaxPlaceholders == 1
MaxDeny == 2

\* ---------------------------------------------------------------- gate values
\* Keys of the keypad the user taps (four of the ten).
Digits == {"1", "2", "3", "6"}

RequiredPinWrong == <<"2", "2", "3", "3", "6", "1">>
RequiredPin == <<"2", "2", "3", "3", "6", "6">>

PinLength == 6

\* Delays of the gate's two timers, in ms.
DenyCooldownMs == 650
AnimationMs == 2400

\* ---------------------------------------------------------------- texts
Space == " "

RawTexts == { <<>>, <<" ">>, <<"a">>, <<" ", "a", " ">> }

IsBlank(s) == \A k \in 1..Len(s) : s[k] = Space

RECURSIVE TrimStart(_)
TrimStart(s) ==
  IF s = <<>> THEN s
  ELSE IF Head(s) = Space THEN TrimStart(Tail(s)) ELSE s

RECURSIVE TrimEnd(_)
TrimEnd(s) ==
  IF s = <<>> THEN s
  ELSE IF s[Len(s)] = Space THEN TrimEnd(SubSeq(s, 1, Len(s) - 1)) ELSE s

TrimIdentity(s) == s

\* String.prototype.trim
Trim(s) == TrimEnd(TrimStart(s))

IsEmptyNever(s) == FALSE

\* !text for a JavaScript string: only the empty string is falsy.
IsEmptyText(s) == s = << >>

\* ---------------------------------------------------------------- values
Phases == {"locked", "booting", "idle", "listening", "thinking", "speaking", "error"}

NoError == [title |-> "none", detail |-> "none"]

Err(t, d) == [title |-> t, detail |-> d]

CaptureErrorCodes == {"network"}

FetchFailures == {"transport", "http"}

Msg(r, c) == [role |-> r, content |-> c]

VARIABLES
  started,            \* prop started (Index state)
  micEnabled,         \* JarvisCore state, mirrored in micEnabledRef
  phase,              \* useState phase
  error,              \* useState error
  messages,           \* useState messages
  lastTranscriptRef,  \* useRef, shared by all recognizers
  rec,                \* the live session reachable through recognitionRef (0 or 1)
  orphans,            \* live sessions whose recognizer was replaced in recognitionRef
  speakingRef,        \* useRef
  inflight,           \* fetches not yet settled, with their AbortController
  settleTimer,        \* the 250 ms timer of the [phase, started] effect (0 or 1)
  rearmTimers,        \* 450 ms timers set by rec.onend
  permPending,        \* getUserMedia calls not yet settled
  bootTimer,          \* the 1600 ms timer of the boot effect
  utt,                \* the utterance in the synthesis queue
  cancelled,          \* utterances removed by speechSynthesis.cancel(), callback not yet delivered
  placeholders,       \* 900 ms timers awaited by speak when synthesis is absent
  supportsSpeechRecognition,  \* environment
  supportsSynthesis,          \* environment
  digits,             \* PinGate: entered digits
  status,             \* PinGate: "idle" | "denied" | "passed"
  animating,          \* PinGate: confirmation animation is open
  denyTimers,         \* PinGate: pending 650 ms cool-down timers of deny()
  pinAuthorized,      \* Index: gate has authorized (gate closed)
  authorizedCalls,    \* history: number of calls of onAuthorized
  mounted,            \* the hook is mounted: React state can still change
  run,                \* history: digits of the code tapped in order, as the only
                      \* user actions, since a state with status idle and empty buffer
  recordHistory       \* observer switch, fixed for a behaviour: closures record
                      \* whether the messages they hold are still current

vars == << started, micEnabled, phase, error, messages, lastTranscriptRef, rec,
           orphans, speakingRef, inflight, settleTimer, rearmTimers, permPending,
           bootTimer, utt, cancelled, placeholders, supportsSpeechRecognition,
           supportsSynthesis, digits, status, animating, denyTimers,
           pinAuthorized, authorizedCalls, mounted, run, recordHistory >>

gateVars == << digits, status, animating, denyTimers, pinAuthorized,
               authorizedCalls, run >>

voiceVars == << started, micEnabled, phase, error, messages, lastTranscriptRef,
                rec, orphans, speakingRef, inflight, settleTimer, rearmTimers,
                permPending, bootTimer, utt, cancelled, placeholders >>

envVars == << supportsSpeechRecognition, supportsSynthesis, recordHistory >>

\* ---------------------------------------------------------------- helpers
\* The value a handler closes over: startListening and rec.onend read the
\* phase of the render that created them.
\* `history` says whether the `messages` the render closed over are still the
\* conversation's messages: "current", "outdated", or "unrecorded" in the
\* specifications that do not follow it (recordHistory = FALSE).
Closure(p) ==
  [phase |-> p, history |-> IF recordHistory THEN "current" ELSE "unrecorded"]

OutdatedClosure(c) ==
  IF c.history = "current" THEN [c EXCEPT !.history = "outdated"] ELSE c

\* A message is appended (setMessages): the messages every existing closure
\* holds are no longer the conversation's messages.
Outdated(cs) == [k \in 1..Len(cs) |-> OutdatedClosure(cs[k])]

OutdatedSessions(ss) ==
  [k \in 1..Len(ss) |-> [ss[k] EXCEPT !.closure = OutdatedClosure(@)]]

Session(c) == [st |-> "running", closure |-> c]

PushMessageAsUser(m, role, content) == Append(m, Msg("user", content))

\* setMessages((prev) => [...prev, { role, content, ... }])
PushMessageFirst(m, role, content) == << Msg(role, content) >> \o m

PushMessage(m, role, content) == Append(m, Msg(role, content))

\* Handlers are nulled and the recognizer aborted: the session is gone and
\* delivers nothing more.
StopListeningHard(r) == << >>

\* setPhase(micEnabledRef.current ? "listening" : "idle")
NextPhaseListening(mic) == "listening"

NextPhaseIdle(mic) == "idle"

NextPhase(mic) == IF mic THEN "listening" ELSE "idle"

RemoveAt(s, i) == SubSeq(s, 1, i - 1) \o SubSeq(s, i + 1, Len(s))

AbortNone(reqs) == [k \in 1..Len(reqs) |-> [reqs[k] EXCEPT !.isRef = FALSE]]

\* thinkingAbortRef.current?.abort()
AbortPrevious(reqs) ==
  [k \in 1..Len(reqs) |->
     IF reqs[k].isRef THEN [reqs[k] EXCEPT !.aborted = TRUE, !.isRef = FALSE]
     ELSE reqs[k]]

Request(text, c) ==
  [aborted |-> FALSE, isRef |-> TRUE, text |-> text, history |-> c.history]

AutoStartNever(p1, s1, mic1, m1, r, t) == << r, << >> >>

\* The [phase, started] effect, run after a render in which phase or started
\* changed.  r and t are the handle session and settle timer left by the
\* handler; the result is << rec', settleTimer' >>.
AutoStartEffect(p1, s1, mic1, m1, r, t) ==
  IF p1 = phase /\ s1 = started THEN << r, t >>
  ELSE IF ~s1 THEN << r, << >> >>
  ELSE IF ~mic1 THEN << StopListeningHard(r), << >> >>
  ELSE IF p1 # "listening" THEN << StopListeningHard(r), << >> >>
  ELSE << r, << Closure(p1) >> >>

\* Commit of one task: the new React state and the effect that follows it.
\* After the unmount a state setter changes nothing and no effect runs.
Render(p1, s1, mic1, m1, r, t) ==
  IF mounted
  THEN /\ phase' = p1
       /\ started' = s1
       /\ micEnabled' = mic1
       /\ messages' = m1
       /\ rec' = AutoStartEffect(p1, s1, mic1, m1, r, t)[1]
       /\ settleTimer' = AutoStartEffect(p1, s1, mic1, m1, r, t)[2]
  ELSE /\ UNCHANGED << phase, started, micEnabled, messages >>
       /\ rec' = r
       /\ settleTimer' = t

\* setError
SetError(e) == IF mounted THEN e ELSE error

Constructed ==
  /\ started = FALSE
  /\ micEnabled = TRUE
  /\ phase = "locked"
  /\ error = NoError
  /\ messages = << >>
  /\ lastTranscriptRef = << >>
  /\ rec = << >>
  /\ orphans = << >>
  /\ speakingRef = FALSE
  /\ inflight = << >>
  /\ settleTimer = << >>
  /\ rearmTimers = << >>
  /\ permPending = << >>
  /\ bootTimer = FALSE
  /\ utt = "none"
  /\ cancelled = 0
  /\ placeholders = 0
  /\ digits = << >>
  /\ status = "idle"
  /\ animating = FALSE
  /\ denyTimers = 0
  /\ pinAuthorized = FALSE
  /\ authorizedCalls = 0
  /\ run = 0
  /\ mounted = TRUE

Init ==
  /\ Constructed
  /\ supportsSpeechRecognition \in BOOLEAN
  /\ supportsSynthesis \in BOOLEAN
  /\ recordHistory = FALSE

\* A browser with speech recognition and without speech synthesis, the
\* closures' message histories followed.
InitHistory ==
  /\ Constructed
  /\ supportsSpeechRecognition = TRUE
  /\ supportsSynthesis = FALSE
  /\ recordHistory = TRUE

\* ---------------------------------------------------------------- boot
\* Index: setStarted(true); boot effect of the hook.
Start ==
  /\ mounted
  /\ ~started
  /\ error' = NoError
  /\ bootTimer' = TRUE
  /\ Render("booting", TRUE, micEnabled, messages,
            IF micEnabled THEN rec ELSE StopListeningHard(rec), settleTimer)
  /\ UNCHANGED << lastTranscriptRef, orphans, speakingRef, inflight, rearmTimers,
                  permPending, utt, cancelled, placeholders, envVars, mounted >>

\* ---------------------------------------------------------------- access gate
\* tryValidateIfComplete: "none" while the buffer is not full.
TryValidateIfComplete(nextDigits) ==
  IF Len(nextDigits) # PinLength THEN "none"
  ELSE IF nextDigits = RequiredPin THEN "passed"
  ELSE "denied"

\* History of the taps: continues a run of code digits, or starts one when
\* the gate is idle and empty, or ends it.
RunAfterDigit(d) ==
  IF run >= 1 /\ run < PinLength /\ d = RequiredPin[run + 1] THEN run + 1
  ELSE IF digits = << >> /\ status = "idle" /\ d = RequiredPin[1] THEN 1
  ELSE 0

\* addDigit, with the validation microtask it queues.
AddDigit(d) ==
  /\ ~pinAuthorized
  /\ ~animating
  /\ Len(digits) < PinLength
  /\ TryValidateIfComplete(Append(digits, d)) = "denied" => denyTimers < MaxDeny
  /\ digits' = Append(digits, d)
  /\ status' = IF TryValidateIfComplete(digits') = "none" THEN status
               ELSE TryValidateIfComplete(digits')
  /\ animating' = (TryValidateIfComplete(digits') = "passed")
  /\ denyTimers' = IF TryValidateIfComplete(digits') = "denied"
                   THEN denyTimers + 1 ELSE denyTimers
  /\ run' = RunAfterDigit(d)
  /\ UNCHANGED << pinAuthorized, authorizedCalls, voiceVars, envVars, mounted >>

BackspaceKeepStatus ==
  /\ ~pinAuthorized
  /\ ~animating
  /\ digits' = SubSeq(digits, 1, Len(digits) - 1)
  /\ status' = status
  /\ run' = 0
  /\ UNCHANGED << animating, denyTimers, pinAuthorized, authorizedCalls,
                  voiceVars, envVars, mounted >>

Backspace ==
  /\ ~pinAuthorized
  /\ ~animating
  /\ digits' = SubSeq(digits, 1, Len(digits) - 1)
  /\ status' = "idle"
  /\ run' = 0
  /\ UNCHANGED << animating, denyTimers, pinAuthorized, authorizedCalls,
                  voiceVars, envVars, mounted >>

\* clearAll, and the Reset button (disabled while animating): reset().
ClearAll ==
  /\ ~pinAuthorized
  /\ ~animating
  /\ digits' = << >>
  /\ status' = "idle"
  /\ run' = 0
  /\ UNCHANGED << animating, denyTimers, pinAuthorized, authorizedCalls,
                  voiceVars, envVars, mounted >>

\* The handlers as the keypad calls them, early returns included: a key pressed
\* while the animation runs, or a digit pressed on a full buffer, changes nothing.
AddDigitPressed(d) ==
  IF animating \/ Len(digits) >= PinLength
  THEN ~pinAuthorized /\ UNCHANGED vars
  ELSE AddDigit(d)

BackspacePressed ==
  IF animating THEN ~pinAuthorized /\ UNCHANGED vars ELSE Backspace

ClearAllUnchecked ==
  /\ ~pinAuthorized
  /\ digits' = << >>
  /\ status' = "idle"
  /\ run' = 0
  /\ UNCHANGED << animating, denyTimers, pinAuthorized, authorizedCalls,
                  voiceVars, envVars, mounted >>

ClearAllPressed ==
  IF animating THEN ~pinAuthorized /\ UNCHANGED vars ELSE ClearAll

\* The timer set by deny(); nothing ever clears it.
DenyTimerLost ==
  /\ denyTimers > 0
  /\ denyTimers' = denyTimers - 1
  /\ UNCHANGED << digits, status, animating, pinAuthorized, authorizedCalls, run,
                  voiceVars, envVars, mounted >>

DenyTimerFires ==
  /\ denyTimers > 0
  /\ denyTimers' = denyTimers - 1
  /\ digits' = << >>
  /\ status' = "idle"
  /\ UNCHANGED << animating, pinAuthorized, authorizedCalls, run, voiceVars,
                  envVars, mounted >>

\* Index: the onAuthorized callback handed to the gate.
OnStartOnly ==
  /\ pinAuthorized' = pinAuthorized
  /\ Start

OnAuthorized ==
  /\ pinAuthorized' = TRUE
  /\ Start

\* SecurityAnimation's timer fires: onComplete of PinGate. Every deny timer
\* was set before the animation opened and is shorter than the animation,
\* whose timer restarts with each render of the gate.
SecurityAnimationStays ==
  /\ animating
  /\ authorizedCalls < 2
  /\ animating' = animating
  /\ authorizedCalls' = authorizedCalls + 1
  /\ UNCHANGED << digits, status, denyTimers, run, pinAuthorized, voiceVars, envVars, mounted >>

SecurityAnimationComplete ==
  /\ animating
  /\ ~pinAuthorized
  /\ DenyCooldownMs < AnimationMs => denyTimers = 0
  /\ animating' = FALSE
  /\ authorizedCalls' = authorizedCalls + 1
  /\ run' = 0
  /\ OnAuthorized
  /\ UNCHANGED << digits, status, denyTimers >>

\* The gate's straight run taken as one step: the code is tapped from the
\* initial gate state, the animation completes, onAuthorized is called.
Authorize ==
  /\ ~pinAuthorized
  /\ digits = << >> /\ status = "idle" /\ ~animating /\ denyTimers = 0
  /\ digits' = RequiredPin
  /\ status' = TryValidateIfComplete(RequiredPin)
  /\ authorizedCalls' = authorizedCalls + 1
  /\ run' = 0
  /\ OnAuthorized
  /\ UNCHANGED << animating, denyTimers >>

GateNext ==
  \/ \E d \in Digits : AddDigit(d)
  \/ Backspace
  \/ ClearAll
  \/ DenyTimerFires
  \/ SecurityAnimationComplete

BootTimerToError ==
  /\ bootTimer
  /\ bootTimer' = FALSE
  /\ Render("error", started, micEnabled, messages, rec, settleTimer)
  /\ UNCHANGED << error, lastTranscriptRef, orphans, speakingRef, inflight,
                  rearmTimers, permPending, utt, cancelled, placeholders, envVars, gateVars, mounted >>

BootTimerFires ==
  /\ bootTimer
  /\ bootTimer' = FALSE
  /\ Render(NextPhase(micEnabled), started, micEnabled, messages, rec, settleTimer)
  /\ UNCHANGED << error, lastTranscriptRef, orphans, speakingRef, inflight,
                  rearmTimers, permPending, utt, cancelled, placeholders, envVars, gateVars, mounted >>

\* ---------------------------------------------------------------- mic toggle
\* The [micEnabled, started] effect: setPhase with a functional update.
MicEffectAlwaysIdle(p, s, mic1) ==
  IF ~mic1
  THEN IF s THEN "idle" ELSE "locked"
  ELSE IF p = "idle" THEN "listening" ELSE p

MicEffectPhase(p, s, mic1) ==
  IF ~mic1
  THEN IF p \in {"thinking", "speaking", "error"} THEN p
       ELSE IF s THEN "idle" ELSE "locked"
  ELSE IF p = "idle" THEN "listening" ELSE p

\* MicToggleButton: onToggle(!micEnabled), disabled while !started or booting.
ToggleMic ==
  /\ mounted
  /\ started
  /\ phase # "booting"
  /\ Render(MicEffectPhase(phase, started, ~micEnabled), started, ~micEnabled, messages,
            IF micEnabled THEN StopListeningHard(rec) ELSE rec, settleTimer)
  /\ UNCHANGED << error, lastTranscriptRef, orphans, speakingRef, inflight, rearmTimers,
                  permPending, bootTimer, utt, cancelled, placeholders, envVars, gateVars, mounted >>

\* ---------------------------------------------------------------- capture
\* startListening up to its await; c is the closure of the render that
\* created this startListening, t the settle timer after the caller's step.
StartListening(c, t) ==
  IF ~supportsSpeechRecognition
  THEN /\ error' = SetError(Err("SpeechRecognition not supported", "no Web Speech API"))
       /\ Render("error", started, micEnabled, messages, rec, t)
       /\ permPending' = permPending
  ELSE IF c.phase # "listening" \/ speakingRef
  THEN /\ Render(phase, started, micEnabled, messages, rec, t)
       /\ UNCHANGED << error, permPending >>
  ELSE /\ Len(permPending) < MaxPerm
       /\ permPending' = Append(permPending, c)
       /\ Render(phase, started, micEnabled, messages, rec, t)
       /\ error' = error

SettleTimerFires ==
  /\ settleTimer # << >>
  /\ StartListening(settleTimer[1], << >>)
  /\ UNCHANGED << lastTranscriptRef, orphans, speakingRef, inflight, rearmTimers,
                  bootTimer, utt, cancelled, placeholders, envVars, gateVars, mounted >>

RearmTimerFires(i) ==
  /\ i \in 1..Len(rearmTimers)
  /\ rearmTimers' = RemoveAt(rearmTimers, i)
  /\ StartListening(rearmTimers[i], settleTimer)
  /\ UNCHANGED << lastTranscriptRef, orphans, speakingRef, inflight,
                  bootTimer, utt, cancelled, placeholders, envVars, gateVars, mounted >>

\* getUserMedia rejects: startListening lines 460-467.
PermissionDenied(i) ==
  /\ i \in 1..Len(permPending)
  /\ permPending' = RemoveAt(permPending, i)
  /\ error' = SetError(Err("Microphone permission denied", "allow microphone access"))
  /\ Render("error", started, micEnabled, messages, rec, settleTimer)
  /\ UNCHANGED << lastTranscriptRef, orphans, speakingRef, inflight, rearmTimers,
                  bootTimer, utt, cancelled, placeholders, envVars, gateVars, mounted >>

\* getUserMedia resolves: startListening lines 470-526.  A recognizer is
\* created and stored in recognitionRef; a recognizer still live there is no
\* longer reachable.  When rec.start() throws, the catch block calls
\* setMicEnabled, which this hook does not define: the ReferenceError ends
\* the function before setError / setPhase.
PermissionGranted(i, startThrows) ==
  /\ i \in 1..Len(permPending)
  /\ permPending' = RemoveAt(permPending, i)
  /\ orphans' = IF rec # << >> THEN Append(orphans, rec[1]) ELSE orphans
  /\ Len(orphans') <= MaxOrphans
  /\ lastTranscriptRef' = << >>
  /\ rec' = IF startThrows THEN << >> ELSE << Session(permPending[i]) >>
  /\ UNCHANGED << started, micEnabled, phase, error, messages, speakingRef, inflight,
                  settleTimer, rearmTimers, bootTimer, utt, cancelled, placeholders,
                  envVars, gateVars, mounted >>

\* Live sessions: 0 is the one in recognitionRef, 1.. are the replaced ones.
SessionIds == (IF rec # << >> THEN {0} ELSE {}) \cup (1..Len(orphans))

SessionAt(j) == IF j = 0 THEN rec[1] ELSE orphans[j]

RecWith(j, s) == IF j = 0 THEN << s >> ELSE rec

OrphansWith(j, s) == IF j = 0 THEN orphans ELSE [orphans EXCEPT ![j] = s]

RecWithout(j) == IF j = 0 THEN << >> ELSE rec

OrphansWithout(j) == IF j = 0 THEN orphans ELSE RemoveAt(orphans, j)

\* rec.onresult
RecOnResult(j, raw) ==
  /\ j \in SessionIds
  /\ SessionAt(j).st = "running"
  /\ lastTranscriptRef' = Trim(raw)
  /\ rec' = RecWith(j, [SessionAt(j) EXCEPT !.st = "resulted"])
  /\ orphans' = OrphansWith(j, [SessionAt(j) EXCEPT !.st = "resulted"])
  /\ UNCHANGED << started, micEnabled, phase, error, messages, speakingRef, inflight,
                  settleTimer, rearmTimers, permPending, bootTimer, utt, cancelled,
                  placeholders, envVars, gateVars, mounted >>

\* rec.onerror
RecOnError(j, code) ==
  /\ j \in SessionIds
  /\ SessionAt(j).st = "running"
  /\ error' = SetError(Err("Voice input error", code))
  /\ orphans' = OrphansWith(j, [SessionAt(j) EXCEPT !.st = "errored"])
  /\ Render("error", started, micEnabled, messages,
            RecWith(j, [SessionAt(j) EXCEPT !.st = "errored"]), settleTimer)
  /\ UNCHANGED << lastTranscriptRef, speakingRef, inflight, rearmTimers, permPending,
                  bootTimer, utt, cancelled, placeholders, envVars, gateVars, mounted >>

\* callBackend up to its await: lines 403-418.  m1 are the messages after the
\* caller's pushMessage, r the handle session left by the caller.
CallBackend(text, c, m1, r) ==
  /\ Len(inflight) < MaxInflight
  /\ inflight' = Append(AbortPrevious(inflight), Request(text, c))
  /\ Render("thinking", started, micEnabled, m1, StopListeningHard(r), settleTimer)

\* rec.onend
RecOnEnd(j) ==
  /\ j \in SessionIds
  /\ LET c == SessionAt(j).closure
         transcript == Trim(lastTranscriptRef)
     IN IF IsEmptyText(transcript)
        THEN /\ IF c.phase = "listening" /\ micEnabled
                THEN /\ Len(rearmTimers) < MaxRearm
                     /\ rearmTimers' = Append(rearmTimers, c)
                ELSE rearmTimers' = rearmTimers
             /\ Render(phase, started, micEnabled, messages, RecWithout(j), settleTimer)
             /\ orphans' = OrphansWithout(j)
             /\ UNCHANGED << inflight, permPending >>
        ELSE /\ Len(messages) < MaxMsgs
             /\ CallBackend(transcript, c,
                            PushMessage(messages, "user", transcript), RecWithout(j))
             /\ orphans' = OutdatedSessions(OrphansWithout(j))
             /\ rearmTimers' = Outdated(rearmTimers)
             /\ permPending' = Outdated(permPending)
  /\ UNCHANGED << error, lastTranscriptRef, speakingRef, bootTimer, utt,
                  cancelled, placeholders, envVars, gateVars, mounted >>

\* ---------------------------------------------------------------- text input
\* TextInputPanel.submit then sendText.  The panel is rendered only while the
\* mic is disabled and is disabled while !started or booting.
SendText(raw) ==
  /\ mounted
  /\ started
  /\ phase # "booting"
  /\ ~micEnabled
  /\ LET t == Trim(raw)
         safe == Trim(t)
     IN IF IsEmptyText(t) \/ IsEmptyText(safe)
        THEN UNCHANGED << started, micEnabled, phase, messages, rec, settleTimer, inflight,
                          orphans, rearmTimers, permPending >>
        ELSE /\ Len(messages) < MaxMsgs
             /\ CallBackend(safe, Closure(phase), PushMessage(messages, "user", safe), rec)
             /\ orphans' = OutdatedSessions(orphans)
             /\ rearmTimers' = Outdated(rearmTimers)
             /\ permPending' = Outdated(permPending)
  /\ UNCHANGED << error, lastTranscriptRef, speakingRef, bootTimer, utt, cancelled,
                  placeholders, envVars, gateVars, mounted >>

\* ---------------------------------------------------------------- reply
\* The catch block of callBackend: lines 431-440.
ReplyFailure(i, detail) ==
  /\ inflight' = RemoveAt(inflight, i)
  /\ error' = SetError(Err("Connection / response error", detail))
  /\ Render("error", started, micEnabled, messages, rec, settleTimer)
  /\ UNCHANGED << utt, cancelled, placeholders, orphans, rearmTimers, permPending >>

\* speak up to its await: lines 362-397.
Speak(m1) ==
  /\ Render("speaking", started, micEnabled, m1, StopListeningHard(rec), settleTimer)
  /\ IF ~supportsSynthesis
     THEN /\ placeholders < MaxPlaceholders
          /\ placeholders' = placeholders + 1
          /\ UNCHANGED << utt, cancelled >>
     ELSE /\ cancelled' = IF utt # "none" THEN cancelled + 1 ELSE cancelled
          /\ cancelled' <= MaxCancelled
          /\ utt' = "queued"
          /\ placeholders' = placeholders

\* fetch (or reading the body) rejects: a transport failure, a non-OK status,
\* or the AbortError of a request whose controller was aborted.
ReplyRejected(i, kind) ==
  /\ i \in 1..Len(inflight)
  /\ IF inflight[i].aborted THEN kind = "aborted" ELSE kind \in FetchFailures
  /\ ReplyFailure(i, kind)
  /\ UNCHANGED << lastTranscriptRef, speakingRef, bootTimer, envVars, gateVars, mounted >>

\* The response is OK and its JSON is read: lines 425-430.  raw is data.reply
\* (the empty text when the field is missing).
ReplyReceived(i, raw) ==
  /\ i \in 1..Len(inflight)
  /\ ~inflight[i].aborted
  /\ LET reply == Trim(raw)
     IN IF IsEmptyText(reply)
        THEN ReplyFailure(i, "empty reply")
        ELSE /\ Len(messages) < MaxMsgs
             /\ inflight' = RemoveAt(inflight, i)
             /\ error' = error
             /\ Speak(PushMessage(messages, "assistant", reply))
             /\ orphans' = OutdatedSessions(orphans)
             /\ rearmTimers' = Outdated(rearmTimers)
             /\ permPending' = Outdated(permPending)
  /\ UNCHANGED << lastTranscriptRef, speakingRef, bootTimer, envVars, gateVars, mounted >>

\* ---------------------------------------------------------------- synthesis
\* u.onstart
UttOnStart ==
  /\ utt = "queued"
  /\ utt' = "speaking"
  /\ speakingRef' = TRUE
  /\ rec' = StopListeningHard(rec)
  /\ UNCHANGED << started, micEnabled, phase, error, messages, lastTranscriptRef, orphans,
                  inflight, settleTimer, rearmTimers, permPending, bootTimer, cancelled,
                  placeholders, envVars, gateVars, mounted >>

\* u.onend / u.onerror and the continuation of speak: lines 387-400.
SpeakDone ==
  /\ speakingRef' = FALSE
  /\ Render(NextPhase(micEnabled), started, micEnabled, messages, rec, settleTimer)
  /\ UNCHANGED << error, lastTranscriptRef, orphans, inflight, rearmTimers, permPending,
                  bootTimer, placeholders, envVars, gateVars, mounted >>

UttSettles ==
  /\ utt # "none"
  /\ utt' = "none"
  /\ cancelled' = cancelled
  /\ SpeakDone

\* The end / error event of an utterance that speechSynthesis.cancel() removed.
CancelledUttSettles ==
  /\ cancelled > 0
  /\ cancelled' = cancelled - 1
  /\ utt' = utt
  /\ SpeakDone

\* The 900 ms placeholder of speak when synthesis is absent: lines 367-372.
PlaceholderLost ==
  /\ placeholders > 0
  /\ placeholders' = placeholders - 1
  /\ UNCHANGED << started, micEnabled, phase, messages, rec, settleTimer, error,
                  lastTranscriptRef, orphans, speakingRef, inflight, rearmTimers,
                  permPending, bootTimer, utt, cancelled, envVars, gateVars, mounted >>

PlaceholderFires ==
  /\ placeholders > 0
  /\ placeholders' = placeholders - 1
  /\ Render(NextPhase(micEnabled), started, micEnabled, messages, rec, settleTimer)
  /\ UNCHANGED << error, lastTranscriptRef, orphans, speakingRef, inflight, rearmTimers,
                  permPending, bootTimer, utt, cancelled, envVars, gateVars, mounted >>

\* ---------------------------------------------------------------- retry
RetryCallKeepsError ==
  /\ mounted
  /\ error' = error
  /\ Render(NextPhase(micEnabled), started, micEnabled, messages, rec, settleTimer)
  /\ UNCHANGED << lastTranscriptRef, orphans, speakingRef, inflight, rearmTimers,
                  permPending, bootTimer, utt, cancelled, placeholders, envVars, gateVars, mounted >>

RetryCallListening ==
  /\ mounted
  /\ error' = NoError
  /\ Render("listening", started, micEnabled, messages, rec, settleTimer)
  /\ UNCHANGED << lastTranscriptRef, orphans, speakingRef, inflight, rearmTimers,
                  permPending, bootTimer, utt, cancelled, placeholders, envVars, gateVars, mounted >>

\* retry: lines 607-610.
RetryCall ==
  /\ mounted
  /\ error' = NoError
  /\ Render(NextPhase(micEnabled), started, micEnabled, messages, rec, settleTimer)
  /\ UNCHANGED << lastTranscriptRef, orphans, speakingRef, inflight, rearmTimers,
                  permPending, bootTimer, utt, cancelled, placeholders, envVars, gateVars, mounted >>

\* The Retry button exists only in the error panel, shown while error is set.
Retry ==
  /\ error # NoError
  /\ RetryCall

\* retry called by a host that offers it without an error, in listening or idle.
RetryWithoutError ==
  /\ started
  /\ phase \in {"listening", "idle"}
  /\ error = NoError
  /\ RetryCall

\* ---------------------------------------------------------------- teardown
\* thinkingAbortRef.current?.abort()
AbortCurrent(reqs) ==
  [k \in 1..Len(reqs) |->
     IF reqs[k].isRef THEN [reqs[k] EXCEPT !.aborted = TRUE] ELSE reqs[k]]

\* The hook unmounts: the cleanups of the boot effect and of the auto-start
\* effect clear their timers, then the unmount cleanup aborts the request in
\* thinkingAbortRef, stops the recognizer in recognitionRef and cancels the
\* synthesis queue.
Unmount ==
  /\ mounted
  /\ mounted' = FALSE
  /\ bootTimer' = FALSE
  /\ settleTimer' = << >>
  /\ inflight' = AbortCurrent(inflight)
  /\ rec' = StopListeningHard(rec)
  /\ IF supportsSynthesis /\ utt # "none"
     THEN /\ cancelled < MaxCancelled
          /\ cancelled' = cancelled + 1
          /\ utt' = "none"
     ELSE UNCHANGED << utt, cancelled >>
  /\ UNCHANGED << started, micEnabled, phase, error, messages, lastTranscriptRef,
                  orphans, speakingRef, rearmTimers, permPending, placeholders,
                  envVars, gateVars >>

\* ---------------------------------------------------------------- system
\* Every step of the controller after its start signal.
VoiceNext ==
  \/ BootTimerFires
  \/ ToggleMic
  \/ SettleTimerFires
  \/ \E i \in 1..MaxRearm : RearmTimerFires(i)
  \/ \E i \in 1..MaxPerm : PermissionDenied(i)
  \/ \E i \in 1..MaxPerm, startThrows \in BOOLEAN : PermissionGranted(i, startThrows)
  \/ \E j \in 0..MaxOrphans, raw \in RawTexts : RecOnResult(j, raw)
  \/ \E j \in 0..MaxOrphans, code \in CaptureErrorCodes : RecOnError(j, code)
  \/ \E j \in 0..MaxOrphans : RecOnEnd(j)
  \/ \E raw \in RawTexts : SendText(raw)
  \/ \E i \in 1..MaxInflight, kind \in FetchFailures \cup {"aborted"} : ReplyRejected(i, kind)
  \/ \E i \in 1..MaxInflight, raw \in RawTexts : ReplyReceived(i, raw)
  \/ UttOnStart
  \/ UttSettles
  \/ CancelledUttSettles
  \/ PlaceholderFires
  \/ Retry

\* The controller, with the gate's run as its one-step start signal.
Next ==
  \/ Authorize
  \/ VoiceNext

Spec == Init /\ [][Next]_vars

\* The whole page: gate and controller, every interleaving.
AppNext ==
  \/ GateNext
  \/ VoiceNext

\* The controller with its 250 ms settle timer, which fires unless the
\* effect's cleanup clears it first.
SpecFair == Spec /\ WF_vars(SettleTimerFires)

\* The controller with the callbacks that end a speak: the 900 ms placeholder
\* timer, and the end or error event the synthesizer delivers for every
\* utterance handed to it.
SpecSpeechFair ==
  Spec /\ WF_vars(PlaceholderFires) /\ WF_vars(UttSettles)

\* The controller with retry also callable while no error is recorded.
RetryApiNext ==
  \/ Next
  \/ RetryWithoutError

SpecRetryApi == Init /\ [][RetryApiNext]_vars

SpecApp == Init /\ [][AppNext]_vars

\* The controller and its teardown at any moment.
TeardownNext ==
  \/ Next
  \/ Unmount

SpecTeardown == Init /\ [][TeardownNext]_vars

\* The program where window.speechSynthesis is absent (no utterance callbacks),
\* with the message history of every closure followed.
HistoryNext ==
  \/ Authorize
  \/ BootTimerFires
  \/ ToggleMic
  \/ SettleTimerFires
  \/ \E i \in 1..MaxRearm : RearmTimerFires(i)
  \/ \E i \in 1..MaxPerm : PermissionDenied(i)
  \/ \E i \in 1..MaxPerm, startThrows \in BOOLEAN : PermissionGranted(i, startThrows)
  \/ \E j \in 0..MaxOrphans, raw \in RawTexts : RecOnResult(j, raw)
  \/ \E j \in 0..MaxOrphans, code \in CaptureErrorCodes : RecOnError(j, code)
  \/ \E j \in 0..MaxOrphans : RecOnEnd(j)
  \/ \E raw \in RawTexts : SendText(raw)
  \/ \E i \in 1..MaxInflight, kind \in FetchFailures \cup {"aborted"} : ReplyRejected(i, kind)
  \/ \E i \in 1..MaxInflight, raw \in RawTexts : ReplyReceived(i, raw)
  \/ PlaceholderFires
  \/ Retry

SpecHistory == InitHistory /\ [][HistoryNext]_vars

\* getUserMedia's promise settles.
PermissionSettles ==
  \E i \in 1..MaxPerm :
    \/ PermissionDenied(i)
    \/ \E startThrows \in BOOLEAN : PermissionGranted(i, startThrows)

\* fetch's promise settles.
ReplySettles ==
  \E i \in 1..MaxInflight :
    \/ \E kind \in FetchFailures \cup {"aborted"} : ReplyRejected(i, kind)
    \/ \E raw \in RawTexts : ReplyReceived(i, raw)

\* Every timer that is set fires, every promise awaited settles and the speech
\* synthesizer delivers the callbacks of every utterance.
SpecListenFair ==
  /\ Spec
  /\ WF_vars(BootTimerFires)
  /\ WF_vars(ReplySettles)
  /\ WF_vars(SettleTimerFires)
  /\ \A i \in 1..MaxRearm : WF_vars(RearmTimerFires(i))
  /\ WF_vars(PermissionSettles)
  /\ WF_vars(PlaceholderFires)
  /\ WF_vars(UttSettles)
  /\ WF_vars(CancelledUttSettles)

\* The gate alone. Both timers of the gate fire once set: a browser timer
\* that is not cleared runs its callback.
\* The gate with every key press, the ignored ones included.
GateKeysNext ==
  \/ \E d \in Digits : AddDigitPressed(d)
  \/ BackspacePressed
  \/ ClearAllPressed
  \/ DenyTimerFires
  \/ SecurityAnimationComplete

SpecGateKeys == Init /\ [][GateKeysNext]_vars

SpecGateFair ==
  /\ Init /\ [][GateNext]_vars
  /\ WF_vars(DenyTimerFires) /\ WF_vars(SecurityAnimationComplete)

TypeOK ==
  /\ started \in BOOLEAN /\ micEnabled \in BOOLEAN /\ speakingRef \in BOOLEAN
  /\ phase \in Phases
  /\ Len(messages) <= MaxMsgs
  /\ Len(inflight) <= MaxInflight
  /\ Len(permPending) <= MaxPerm
  /\ Len(rearmTimers) <= MaxRearm
  /\ Len(orphans) <= MaxOrphans
  /\ Len(rec) <= 1 /\ Len(settleTimer) <= 1
  /\ utt \in {"none", "queued", "speaking"}
  /\ cancelled \in 0..MaxCancelled
  /\ placeholders \in 0..MaxPlaceholders
  /\ digits \in UNION { [1..n -> Digits] : n \in 0..PinLength }
  /\ status \in {"idle", "denied", "passed"}
  /\ animating \in BOOLEAN /\ pinAuthorized \in BOOLEAN
  /\ denyTimers \in 0..MaxDeny
  /\ authorizedCalls \in 0..1
  /\ run \in 0..PinLength
  /\ mounted \in BOOLEAN
  /\ recordHistory \in BOOLEAN

\* ---------------------------------------------------------------- activities
CaptureActive == rec # << >> \/ orphans # << >>

CurrentRequests == { i \in 1..Len(inflight) : ~inflight[i].aborted }

RequestInFlight == CurrentRequests # {}

UtteranceActive == utt # "none"

ActivityCount ==
  (IF CaptureActive THEN 1 ELSE 0) + (IF RequestInFlight THEN 1 ELSE 0)
    + (IF UtteranceActive THEN 1 ELSE 0)

\* C1: at most one of a capture session, a non-cancelled reply request and a
\* synthesis utterance exists at a time.
C1_OneActivity == ActivityCount <= 1

\* C2: the phase is not listening while a synthesis utterance is queued or
\* being spoken.
C2_NoListeningWhileUtterance == ~(phase = "listening" /\ UtteranceActive)

\* C3: no capture session is active while the phase is thinking or speaking.
C3_NoCaptureWhileThinkingOrSpeaking ==
  phase \in {"thinking", "speaking"} => ~CaptureActive

\* C4: at most one reply request that has not been cancelled is in flight.
C4_OneCurrentRequest == Cardinality(CurrentRequests) <= 1

C4_Witness ==
  \E i, k \in 1..Len(inflight) : inflight[i].aborted /\ ~inflight[k].aborted

\* C5: a reply request that was cancelled by a newer one changes neither the
\* phase, nor the error record, nor the messages when it settles.
C5_SupersededChangesNothing ==
  [][\A i \in 1..Len(inflight) :
       (inflight[i].aborted /\ ReplyRejected(i, "aborted"))
         => (phase' = phase /\ error' = error /\ messages' = messages)]_vars

\* C6: while the mic is disabled by the user no capture session is active.
C6_NoCaptureWhileMicDisabled == ~micEnabled => ~CaptureActive

\* C7: the phase leaves error only by the retry action.
C7_ErrorUntilRetry == [][(phase = "error" /\ phase' # "error") => Retry]_vars

ConnectionError(e) == e.title = "Connection / response error"

\* C8: when the current reply request fails (transport failure, non-OK
\* status, or a missing, empty or whitespace-only reply) the phase becomes
\* error with the title "Connection / response error" and no message is
\* appended.
C8_ReplyFailureIsError ==
  [][\A i \in 1..Len(inflight) :
       ( /\ ~inflight[i].aborted
         /\ \/ \E kind \in FetchFailures : ReplyRejected(i, kind)
            \/ \E raw \in RawTexts : IsBlank(raw) /\ ReplyReceived(i, raw) )
         => ( /\ phase' = "error"
              /\ ConnectionError(error')
              /\ messages' = messages )]_vars

C8_Witness ==
  /\ phase = "error"
  /\ ConnectionError(error)
  /\ error.detail \in FetchFailures \cup {"empty reply"}
  /\ messages # << >>
  /\ messages[Len(messages)].role = "user"

IsTrimmedNonEmpty(t) == t # << >> /\ Head(t) # Space /\ t[Len(t)] # Space

\* C9: the phase enters thinking only when a capture ends with a non-empty
\* trimmed transcript or when a text with non-empty trimmed content is
\* submitted, and that step appends exactly one user message with that text.
C9_ThinkingOnlyAfterInput ==
  [][(phase' = "thinking" /\ phase # "thinking")
       => \E t \in { Trim(raw) : raw \in RawTexts } :
            /\ IsTrimmedNonEmpty(t)
            /\ messages' = Append(messages, Msg("user", t))
            /\ \/ \E j \in SessionIds : RecOnEnd(j) /\ lastTranscriptRef = t
               \/ \E raw \in RawTexts : SendText(raw) /\ Trim(raw) = t]_vars

C9_Witness ==
  /\ phase = "thinking"
  /\ micEnabled
  /\ IsTrimmedNonEmpty(lastTranscriptRef)
  /\ messages # << >>
  /\ messages[Len(messages)] = Msg("user", lastTranscriptRef)
  /\ \E i \in CurrentRequests : inflight[i].text = lastTranscriptRef

\* C10: the phase enters speaking only when a reply with non-empty text is
\* received for the current request, and every such reply appends exactly
\* one assistant message, the trimmed reply, in the step that starts speaking.
C10_SpeakingOnlyAfterReply ==
  [][ /\ (phase' = "speaking" /\ phase # "speaking")
          => \E i \in 1..Len(inflight), raw \in RawTexts :
               /\ inflight[i].isRef /\ ~inflight[i].aborted
               /\ ~IsBlank(raw)
               /\ ReplyReceived(i, raw)
      /\ \A i \in 1..Len(inflight), raw \in RawTexts :
            (~IsBlank(raw) /\ ReplyReceived(i, raw))
              => /\ phase' = "speaking"
                 /\ IsTrimmedNonEmpty(Trim(raw))
                 /\ messages' = Append(messages, Msg("assistant", Trim(raw))) ]_vars

C10_Witness ==
  /\ phase = "speaking"
  /\ messages # << >>
  /\ messages[Len(messages)].role = "assistant"
  /\ IsTrimmedNonEmpty(messages[Len(messages)].content)
  /\ UtteranceActive \/ placeholders > 0

\* C11: thinking is entered only from listening, or from idle by a text
\* submission; speaking is entered only from thinking; speaking is left only
\* to listening or idle; after booting the phase is never locked or booting
\* again.
C11_PhaseOrder ==
  [][ /\ (phase' = "thinking" /\ phase # "thinking")
          => \/ phase = "listening"
             \/ phase = "idle" /\ \E raw \in RawTexts : SendText(raw)
      /\ (phase' = "speaking" /\ phase # "speaking") => phase = "thinking"
      /\ (phase = "speaking" /\ phase' # "speaking") => phase' \in {"listening", "idle"}
      /\ phase \notin {"locked", "booting"} => phase' \notin {"locked", "booting"} ]_vars

\* ---------------------------------------------------------------- gate claims
\* The controller has done nothing: no boot, capture, request or speech.
ControllerLocked ==
  /\ phase = "locked" /\ ~started /\ ~bootTimer
  /\ ~CaptureActive /\ permPending = << >>
  /\ settleTimer = << >> /\ rearmTimers = << >>
  /\ inflight = << >>
  /\ ~UtteranceActive /\ cancelled = 0 /\ placeholders = 0 /\ ~speakingRef
  /\ messages = << >>

\* C12: in every state in which the gate has not signalled authorization the
\* controller is locked with no boot, capture, request or speech, and the
\* controller is started only by the step in which the gate authorizes.
C12_LockedUntilAuthorized ==
  /\ [](~pinAuthorized => ControllerLocked)
  /\ [][started' # started => SecurityAnimationComplete]_vars

C12_Witness ==
  animating /\ status = "passed" /\ ~pinAuthorized /\ phase = "locked"

\* C13: the step that appends the sixth digit sets the status to passed when
\* the buffer equals 223366 and to denied for every other buffer, and the
\* status is passed only with that buffer.
C13_PassedIffCode ==
  /\ [][(Len(digits) = 5 /\ Len(digits') = 6)
          => status' = IF digits' = <<"2", "2", "3", "3", "6", "6">>
                       THEN "passed" ELSE "denied"]_vars
  /\ [](status = "passed" => digits = <<"2", "2", "3", "3", "6", "6">>)

C13_Witness ==
  digits = <<"1", "2", "3", "1", "2", "3">> /\ status = "denied"

\* C14: onAuthorized is called at most once, only while the confirmation
\* animation is open, the animation opens only in the step that completes
\* the code 223366, and once it is open the callback is eventually called.
C14_AuthorizedExactlyOnce ==
  /\ [](authorizedCalls <= 1)
  /\ [][authorizedCalls' # authorizedCalls => animating]_vars
  /\ [][(animating' /\ ~animating)
          => (Len(digits) = 5 /\ digits' = <<"2", "2", "3", "3", "6", "6">>)]_vars
  /\ (animating ~> authorizedCalls = 1)

C14_Witness ==
  authorizedCalls = 1 /\ pinAuthorized /\ ~animating

\* C15: whenever the buffer holds fewer than six digits the status is idle.
C15_IdleBelowSix ==
  Len(digits) < 6 => status = "idle"

C15_Witness ==
  Len(digits) = 5 /\ denyTimers > 0 /\ status = "idle"

\* C16: the sixth digit makes the status denied or passed, and the buffer is
\* empty after the cool-down timer of a denial has fired and after
\* authorization has been signalled.
C16_EmptyAfterResolution ==
  [][ /\ (Len(digits) = 5 /\ Len(digits') = 6) => status' \in {"denied", "passed"}
      /\ DenyTimerFires => digits' = << >>
      /\ authorizedCalls' # authorizedCalls => digits' = << >> ]_vars

\* C17: a sixth digit that does not complete the code sets the status to
\* denied, and from every denied state the gate reaches an empty buffer with
\* status idle.
C17_DeniedThenIdle ==
  /\ [][(Len(digits) = 5 /\ Len(digits') = 6 /\ digits' # RequiredPin)
          => status' = "denied"]_vars
  /\ (status = "denied" ~> (digits = << >> /\ status = "idle"))

C17_Witness ==
  status = "denied" /\ Len(digits) = 6 /\ denyTimers = 1

\* C18: tapping the six digits of the code in order, as the only user
\* actions from a state with status idle and an empty buffer, ends with the
\* status passed, whatever was denied before.
C18_NoLockout ==
  [][(run = 5 /\ run' = 6) => status' = "passed"]_vars

\* ---------------------------------------------------------------- teardown claim
\* C19: after the unmount no capture session is live, no non-cancelled reply
\* request is in flight and no utterance is queued or spoken, in the state
\* right after the unmount and in every later state.
C19_NothingAfterTeardown ==
  ~mounted => (~CaptureActive /\ ~RequestInFlight /\ ~UtteranceActive)

\* ---------------------------------------------------------------- capability claim
UnsupportedError ==
  phase = "error" /\ error.title = "SpeechRecognition not supported"

\* C20: without speech recognition, whenever the phase is listening the
\* settle timer is pending, the step in which it fires sets the phase to
\* error with the title "SpeechRecognition not supported", and the phase
\* never stays listening for ever.
C20_UnsupportedSurfaces ==
  /\ []((~supportsSpeechRecognition /\ phase = "listening") => settleTimer # << >>)
  /\ [][(~supportsSpeechRecognition /\ SettleTimerFires) => UnsupportedError']_vars
  /\ ((~supportsSpeechRecognition /\ phase = "listening") ~> phase # "listening")

C20_Witness ==
  ~supportsSpeechRecognition /\ UnsupportedError /\ settleTimer = << >>

\* ---------------------------------------------------------------- capture claims
PermissionDeniedError ==
  phase = "error" /\ error.title = "Microphone permission denied"

\* C21: the step in which microphone permission is denied sets the phase to
\* error with the title "Microphone permission denied" and creates no capture
\* session, and while that error is recorded no new permission request is
\* made except in a step of retry.
C21_PermissionDenied ==
  /\ [][\A i \in 1..MaxPerm : PermissionDenied(i)
          => (PermissionDeniedError' /\ rec' \in {rec, << >>} /\ orphans' = orphans)]_vars
  /\ [][(error.title = "Microphone permission denied"
          /\ Len(permPending') > Len(permPending)) => Retry]_vars

\* C22: the step in which a capture session reports an error sets the phase
\* to error and records the error code, and while that error is recorded no
\* re-arm timer is set, no permission request or capture session is started
\* and no message is appended.
C22_CaptureErrorIsTerminal ==
  /\ [][\A j \in 0..MaxOrphans, code \in CaptureErrorCodes :
          RecOnError(j, code)
            => (phase' = "error" /\ error' = Err("Voice input error", code))]_vars
  /\ [][error.title = "Voice input error"
          => /\ Len(rearmTimers') <= Len(rearmTimers)
             /\ Len(permPending') <= Len(permPending)
             /\ Len(rec') + Len(orphans') <= Len(rec) + Len(orphans)
             /\ messages' = messages]_vars

\* ---------------------------------------------------------------- speech claims
\* C23: the step in which an utterance ends or fails, or in which the
\* placeholder delay elapses, sets the phase to listening when the mic is
\* enabled at that moment and to idle otherwise.
C23_AfterSpeech ==
  [][(UttSettles \/ CancelledUttSettles \/ PlaceholderFires)
       => phase' = IF micEnabled THEN "listening" ELSE "idle"]_vars

C23_Witness ==
  /\ ~supportsSynthesis /\ placeholders = 0 /\ inflight = << >>
  /\ ~micEnabled /\ phase = "idle" /\ error = NoError
  /\ messages # << >> /\ messages[Len(messages)].role = "assistant"

\* C24: every state with phase speaking is followed by a state with another
\* phase, with and without speech synthesis.
C24_SpeakingEnds ==
  phase = "speaking" ~> phase # "speaking"

C24_Witness ==
  phase = "speaking" /\ ~supportsSynthesis /\ placeholders = 1

\* ---------------------------------------------------------------- retry claims
\* C25: a retry step taken in phase error clears the error record and sets
\* the phase to listening when the mic is enabled and to idle otherwise.
C25_RetryLeavesError ==
  [][(Retry /\ phase = "error")
       => (error' = NoError /\ phase' = IF micEnabled THEN "listening" ELSE "idle")]_vars

C25_Witness ==
  /\ phase = "idle" /\ ~micEnabled /\ error = NoError
  /\ Len(messages) = 1 /\ inflight = << >>

\* C26: retry called in phase listening or idle with no error recorded
\* changes nothing: phase, error record, messages, capture sessions, pending
\* activations, requests and timers are all as before.
C26_RetryIdempotent ==
  [][RetryWithoutError => UNCHANGED vars]_vars

C26_Witness ==
  /\ mounted /\ started /\ phase \in {"listening", "idle"} /\ error = NoError
  /\ messages # << >>

\* ---------------------------------------------------------------- cycle claims
\* C27: the step in which a capture session ends with no transcript while
\* the phase is listening and the mic is enabled leaves the phase listening,
\* appends no message, issues no request and sets exactly one re-arm timer,
\* whose activation is again one of phase listening.
C27_EmptyCaptureRearms ==
  [][\A j \in 0..MaxOrphans :
       (RecOnEnd(j) /\ lastTranscriptRef = << >> /\ phase = "listening" /\ micEnabled)
         => /\ phase' = "listening"
            /\ messages' = messages
            /\ inflight' = inflight
            /\ Len(rearmTimers') = Len(rearmTimers) + 1
            /\ SubSeq(rearmTimers', 1, Len(rearmTimers)) = rearmTimers
            /\ rearmTimers'[Len(rearmTimers')].phase = "listening"]_vars

C27_Witness ==
  /\ phase = "listening" /\ micEnabled /\ messages = << >> /\ inflight = << >>
  /\ rearmTimers # << >> /\ rec = << >> /\ orphans = << >> /\ permPending = << >>


\* C28: when a capture ends with a non-empty transcript, a user message with
\* that text is appended, the phase becomes thinking, and the request issued
\* carries that text and the conversation's current message history.
C28_TranscriptIsSent ==
  [][\A j \in 0..MaxOrphans :
       (RecOnEnd(j) /\ lastTranscriptRef # << >>)
         => /\ messages' = Append(messages, Msg("user", lastTranscriptRef))
            /\ phase' = "thinking"
            /\ inflight' # << >>
            /\ inflight'[Len(inflight')].text = lastTranscriptRef
            /\ inflight'[Len(inflight')].history = "current"]_vars


\* C29: the message sequence is append-only: every step leaves it as it is or
\* adds one message at its end; no message is removed, reordered or rewritten.
C29_AppendOnly ==
  [][\/ messages' = messages
     \/ /\ Len(messages') = Len(messages) + 1
        /\ SubSeq(messages', 1, Len(messages)) = messages]_vars

C29_Witness ==
  /\ Len(messages) >= 3
  /\ messages[1].role = "user"
  /\ messages[2].role = "assistant"
  /\ messages[3].role = "user"


\* C30: whenever the phase is listening with the mic enabled and capture
\* supported, and stays so, a capture session is eventually started: the voice
\* loop never remains in listening with no capture session.
C30_ListeningStartsCapture ==
  (phase = "listening" /\ micEnabled /\ supportsSpeechRecognition)
    ~> (rec # << >> \/ orphans # << >> \/ phase # "listening" \/ ~micEnabled)

\* C31: at most one capture session is live at any time, and every live
\* session is the one held in recognitionRef (so stopListeningHard reaches it).
C31_OneSessionInHandle ==
  /\ Len(rec) + Len(orphans) <= 1
  /\ orphans = << >>

\* C32: a mic toggle changes the phase only so: disabling the mic gives idle
\* unless the phase is thinking, speaking or error, which stay; enabling the
\* mic turns idle into listening and leaves every other phase; neither toggle
\* changes the messages or the error record.
C32_MicToggleFrame ==
  [][ToggleMic
       => /\ phase' = IF micEnabled
                      THEN IF phase \in {"thinking", "speaking", "error"}
                           THEN phase ELSE "idle"
                      ELSE IF phase = "idle" THEN "listening" ELSE phase
          /\ micEnabled' = ~micEnabled
          /\ messages' = messages
          /\ error' = error]_vars

\* Only a mic toggle leads to idle before any input.
C32_Witness ==
  /\ started /\ phase = "idle" /\ ~micEnabled
  /\ messages = << >> /\ inflight = << >> /\ error = NoError

\* C33: on the start signal the phase goes from locked to booting and the error
\* record is cleared; while booting no capture, request or speech exists; the
\* phase leaves booting only when the boot delay elapses, to listening if the
\* mic is enabled and to idle otherwise, never to error.
C33_BootIsTimedGate ==
  /\ [][(~started /\ started')
          => (phase = "locked" /\ phase' = "booting" /\ error' = NoError)]_vars
  /\ [](phase = "booting"
          => /\ rec = << >> /\ orphans = << >> /\ permPending = << >>
             /\ settleTimer = << >> /\ rearmTimers = << >>
             /\ inflight = << >>
             /\ utt = "none" /\ placeholders = 0 /\ ~speakingRef)
  /\ [][(phase = "booting" /\ phase' # "booting")
          => /\ BootTimerFires
             /\ phase' = IF micEnabled THEN "listening" ELSE "idle"]_vars

C33_Witness ==
  /\ started /\ ~bootTimer /\ phase = "listening" /\ micEnabled
  /\ settleTimer # << >> /\ messages = << >> /\ error = NoError
  /\ rec = << >> /\ permPending = << >> /\ rearmTimers = << >>

\* C34: the gate's buffer never holds more than 6 digits; a digit pressed when
\* 6 are present leaves the buffer unchanged; and while the confirmation
\* animation runs, digit, backspace and clear leave buffer and status unchanged.
C34_KeysIgnored ==
  /\ [](Len(digits) <= PinLength)
  /\ [][\A d \in Digits :
          (AddDigitPressed(d) /\ Len(digits) = PinLength) => digits' = digits]_vars
  /\ [][(animating /\ ((\E d \in Digits : AddDigitPressed(d))
                         \/ BackspacePressed \/ ClearAllPressed))
          => (digits' = digits /\ status' = status)]_vars

C34_Witness ==
  ~pinAuthorized /\ animating /\ digits = RequiredPin /\ status = "passed"

\* C35: when the recognizer's start call throws, the phase becomes error with
\* the title "Could not start microphone" and the failure detail recorded; the
\* voice loop does not remain in listening without a capture session.
C35_StartFailureIsError ==
  [][\A i \in 1..MaxPerm :
       PermissionGranted(i, TRUE)
         => /\ phase' = "error"
            /\ error'.title = "Could not start microphone"
            /\ error'.detail # NoError.detail]_vars

\* C36: the error record is set if and only if the phase is error: every step
\* into error records a title, and every step out of error, like every entry
\* into thinking or speaking, happens with the error record cleared.
C36_ErrorIffPhaseError ==
  /\ []((phase = "error") <=> (error # NoError))
  /\ [][(phase # "error" /\ phase' = "error") => error'.title # NoError.title]_vars
  /\ [][(phase' # phase /\ (phase = "error" \/ phase' \in {"thinking", "speaking"}))
          => error' = NoError]_vars

\* C37: in every reachable state, phase listening implies that the mic is
\* enabled, and phase idle implies that the session is started and the mic is
\* disabled.
C37_PhaseMatchesMic ==
  /\ phase = "listening" => micEnabled
  /\ phase = "idle" => (started /\ ~micEnabled)

C37_Witness ==
  /\ phase = "idle" /\ started /\ ~micEnabled
  /\ Len(messages) >= 2 /\ error = NoError /\ inflight = << >>

\* C38: whenever a non-cancelled reply request is in flight, the phase is
\* thinking: nothing moves the phase away from thinking while the current
\* request is pending.
C38_ThinkingWhileRequest ==
  /\ [](RequestInFlight => phase = "thinking")
  /\ [][(RequestInFlight /\ phase = "thinking" /\ phase' # "thinking")
          => ~RequestInFlight']_vars

\* C39: once the gate's status is passed, it is not changed to idle or denied
\* and the buffer is not altered before authorization is signalled; a cool-down
\* timer left pending by an earlier denied attempt does not reset a later pass.
C39_PassedIsKept ==
  [][(status = "passed" /\ ~pinAuthorized /\ ~pinAuthorized')
       => (status' = "passed" /\ digits' = digits)]_vars

====
